---- MODULE Spec2Model ----
(***************************************************************************)
(* A model of BrianCoinbaseSDK (src/src/sdk.ts): the constructor's         *)
(* credential validation, the single current-wallet slot with its          *)
(* asynchronous create/import, the pass-through wallet operations, and     *)
(* the transact dispatcher that turns the Planning Service's response      *)
(* into Custody Service calls.                                             *)
(*                                                                         *)
(* One TLA+ action is the code that runs between two awaits: JavaScript    *)
(* runs a continuation to completion, so other callers interleave only at  *)
(* the awaits.                                                             *)
(***************************************************************************)
EXTENDS Integers, Sequences, FiniteSets, TLC

\* ------------------------------------------------------------------ bounds

\* Wallet.create / Wallet.import requests one behaviour may start.
MaxWallets == 2

\* Longest step list of a Transaction Result in a single-action plan.
MaxSteps == 3

\* Longest plan (number of Transaction Results) the Planning Service returns.
MaxActions == 2

\* ------------------------------------------------------- program constants

NULL_ADDRESS == "0x0000000000000000000000000000000000000000"

\* formatUnits(BigInt(txStep.value), 18)
ETH_DECIMALS == 18

\* the network fundWallet accepts
FAUCET_NETWORK == "base-sepolia"

\* data.steps![...].chainId === 1
L1_CHAIN_ID == 1

ERR_BRIAN_KEY == "Brian API key is required"
ERR_COINBASE_KEY == "Coinbase API key name + secret, or file path are required"
ERR_NO_WALLET == "No wallet created"
ERR_NOT_SEPOLIA == "Wallet is not on Sepolia"
ERR_NO_ADDRESS == "No wallet address found"

\* Failures that do not originate in sdk.ts and propagate unmodified.
ERR_CUSTODY == "<custody service rejected>"
ERR_PLANNING == "<planning service rejected>"
ERR_DECODE == "<decodeFunctionData threw>"
ERR_TYPE == "<TypeError: cannot read properties of undefined>"

\* ------------------------------------------------------------ option values

\* A constructor option is absent, the empty string, or a non-empty string.
Undefined == "<undefined>"
OptionValues == {Undefined, "", "set"}

\* JavaScript's !x for an optional string.
Falsy(x) == x = Undefined \/ x = ""

Options ==
    [brianApiKey : OptionValues,
     coinbaseApiKeyName : {Undefined, "set"},
     coinbaseApiKeySecret : {Undefined, "set"},
     coinbaseFilePath : {Undefined, "set"}]

\* --------------------------------------------------------------- constructor

\* if (!brianApiKey)
BrianKeyMissing_m(opts) == opts.brianApiKey = Undefined
BrianKeyMissing(opts) == Falsy(opts.brianApiKey)

\* if ((!coinbaseApiKeyName && !coinbaseApiKeySecret) || !coinbaseFilePath)
CoinbaseCredentialsRejected_m(opts) ==
    (Falsy(opts.coinbaseApiKeyName) /\ Falsy(opts.coinbaseApiKeySecret))
        /\ Falsy(opts.coinbaseFilePath)
CoinbaseCredentialsRejected(opts) ==
    (Falsy(opts.coinbaseApiKeyName) /\ Falsy(opts.coinbaseApiKeySecret))
        \/ Falsy(opts.coinbaseFilePath)

\* if (coinbaseApiKeyName && coinbaseApiKeySecret) Coinbase.configure(...)
\* else Coinbase.configureFromJson(...)
CoinbaseConfiguration(opts) ==
    IF ~Falsy(opts.coinbaseApiKeyName) /\ ~Falsy(opts.coinbaseApiKeySecret)
    THEN "configure"
    ELSE "configureFromJson"

\* new BrianCoinbaseSDK(opts): the instance, or the error the constructor threw.
\* brianSDK: new BrianSDK(...) was run; coinbase: which Coinbase.configure* ran.
constructor(opts) ==
    IF BrianKeyMissing(opts)
    THEN [opts |-> opts, status |-> "threw", error |-> ERR_BRIAN_KEY,
          brianSDK |-> FALSE, coinbase |-> "none"]
    ELSE IF CoinbaseCredentialsRejected(opts)
    THEN [opts |-> opts, status |-> "threw", error |-> ERR_COINBASE_KEY,
          brianSDK |-> FALSE, coinbase |-> "none"]
    ELSE [opts |-> opts, status |-> "constructed", error |-> "",
          brianSDK |-> TRUE, coinbase |-> CoinbaseConfiguration(opts)]

\* ------------------------------------------------------------------ wallets

Networks == {"base-sepolia", "base-mainnet"}

\* private currentWallet: Wallet | null = null
\* A Wallet object: obj is its identity (0 for null), defaultAddress is what
\* getDefaultAddress() resolves to (0 for undefined).
Null == [obj |-> 0, networkId |-> "", defaultAddress |-> 0]
NoAddress == 0

\* The network of the wallet data handed to importWallet.
IMPORTED_NETWORK == "base-mainnet"

\* What getDefaultAddress() of the Wallet of request r resolves to: a created
\* wallet has a default address, an imported one may have none.
DefaultAddresses(r) == IF r.op = "createWallet" THEN {r.req} ELSE {NoAddress, r.req}

\* if (!this.currentWallet)
NoWallet_m(w) == FALSE
NoWallet(w) == w = Null

\* this.currentWallet.getNetworkId() !== "base-sepolia"
NotOnSepolia_m(w) == w.networkId = FAUCET_NETWORK
NotOnSepolia(w) == w.networkId # FAUCET_NETWORK

\* -------------------------------------------- the Planning Service's response

Actions ==
    {"transfer", "swap", "bridge", "deposit", "withdraw", "borrow", "repay",
     "ensregistration", "ensrenewal", "unknown"}

\* The six actions whose branch starts with the conditional approval.
ApprovalActions == {"swap", "bridge", "deposit", "withdraw", "borrow", "repay"}

Solvers == {"Enso", "Bungee", "Lifi"}

\* data.fromToken?.address: the zero address, a token contract, or absent.
FromTokens == {NULL_ADDRESS, "0xToken", Undefined}

ChainIds == {L1_CHAIN_ID, 8453}

\* The step at (1-based) position p of a step list: destination, call data and
\* value are distinct per position, so a call shows which step it was built from.
Step(p, chain) == [to |-> 100 + p, data |-> 200 + p, value |-> p, chainId |-> chain]

StepList(n, chain) == [p \in 1..n |-> Step(p, chain)]

\* One Transaction Result: { action, data: { steps, fromToken }, solver }.
TransactionResult(a, s, f, c, n) ==
    [action |-> a, solver |-> s, fromToken |-> f, steps |-> StepList(n, c)]

\* Every Transaction Result with a step list of at most m steps.
TransactionResults(m) ==
    {TransactionResult(a, s, f, c, n) :
        a \in Actions, s \in Solvers, f \in FromTokens, c \in ChainIds, n \in 0..m}

\* Transaction Results of the multi-action plans: every action kind with an
\* empty, a one-step and a longest step list, one solver, source asset and chain.
PlanResults ==
    {TransactionResult(a, "Lifi", "0xToken", 8453, n) :
        a \in Actions, n \in {0, 1, MaxSteps}}

RECURSIVE SeqsUpTo(_, _)
SeqsUpTo(S, n) ==
    IF n = 0 THEN {<<>>}
    ELSE LET shorter == SeqsUpTo(S, n - 1)
         IN shorter \cup {Append(q, x) : q \in {r \in shorter : Len(r) = n - 1}, x \in S}

\* The responses of the Planning Service: every single-action plan, and every
\* plan of up to MaxActions actions over PlanResults.
Plans ==
    {<<r>> : r \in TransactionResults(MaxSteps)} \cup SeqsUpTo(PlanResults, MaxActions)

\* The responses used while wallets are being created and imported.
LifecyclePlans ==
    {<<>>,
     <<TransactionResult("swap", "Enso", "0xToken", 8453, 2)>>,
     <<TransactionResult("transfer", "Enso", NULL_ADDRESS, 8453, 1),
       TransactionResult("ensrenewal", "Enso", NULL_ADDRESS, L1_CHAIN_ID, 1)>>}

\* ------------------------------------------------------------ ABI selection

\* swap: const solverAbi = swapSolver === "Enso" ? ... : swapSolver === "Bungee" ? ... : ...
SwapSolverAbi_m(solver) ==
    IF solver = "Enso" THEN "ENSO_ROUTER_ABI" ELSE "LIFI_ROUTER_ABI"
SwapSolverAbi(solver) ==
    IF solver = "Enso" THEN "ENSO_ROUTER_ABI"
    ELSE IF solver = "Bungee" THEN "BUNGEE_ROUTER_ABI"
    ELSE "LIFI_ROUTER_ABI"

\* bridge: the abi handed to decodeFunctionData
BridgeDecodeAbi(solver) ==
    IF solver = "Enso" THEN "ENSO_ROUTER_ABI"
    ELSE IF solver = "Bungee" THEN "BUNGEE_ROUTER_ABI"
    ELSE "LIFI_ROUTER_ABI"

\* bridge: the abi handed to invokeContract
BridgeInvokeAbi(solver) ==
    IF solver = "Enso" THEN "ENSO_ROUTER_ABI"
    ELSE IF solver = "Bungee" THEN "BUNGEE_ROUTER_ABI"
    ELSE "LIFI_ROUTER_ABI"

\* deposit: abi: depositSolver === "Enso" ? ENSO_ROUTER_ABI : LIDO_ABI (decode)
DepositDecodeAbi(solver) ==
    IF solver = "Enso" THEN "ENSO_ROUTER_ABI" ELSE "LIDO_ABI"

\* deposit: abi: depositSolver === "Enso" ? ENSO_ROUTER_ABI : LIDO_ABI (invoke)
DepositInvokeAbi(solver) ==
    IF solver = "Enso" THEN "ENSO_ROUTER_ABI" ELSE "LIDO_ABI"

\* withdraw: abi: ENSO_ROUTER_ABI, for decoding and for invoking
WithdrawAbi == "ENSO_ROUTER_ABI"

\* borrow / repay: chainId === 1 ? AAVE_V3_L1_POOL_ABI : AAVE_V3_L2_POOL_ABI
AavePoolAbi(step) ==
    IF step.chainId = L1_CHAIN_ID THEN "AAVE_V3_L1_POOL_ABI" ELSE "AAVE_V3_L2_POOL_ABI"

\* The ABI the operative step of an approval action is decoded against.
OperativeDecodeAbi(tr, step) ==
    CASE tr.action = "swap" -> SwapSolverAbi(tr.solver)
      [] tr.action = "bridge" -> BridgeDecodeAbi(tr.solver)
      [] tr.action = "deposit" -> DepositDecodeAbi(tr.solver)
      [] tr.action = "withdraw" -> WithdrawAbi
      [] tr.action \in {"borrow", "repay"} -> AavePoolAbi(step)

\* The ABI handed to invokeContract for the operative step.
OperativeInvokeAbi(tr, step) ==
    CASE tr.action = "swap" -> SwapSolverAbi(tr.solver)
      [] tr.action = "bridge" -> BridgeInvokeAbi(tr.solver)
      [] tr.action = "deposit" -> DepositInvokeAbi(tr.solver)
      [] tr.action = "withdraw" -> WithdrawAbi
      [] tr.action \in {"borrow", "repay"} -> AavePoolAbi(step)

\* -------------------------------------------------------------------- state

VARIABLES
    sdk,            \* the outcome of new BrianCoinbaseSDK(opts)
    currentWallet,  \* this.currentWallet
    nextObj,        \* identity of the next Wallet object the Custody Service makes
    pending,        \* Wallet.create / Wallet.import requests in flight
    lastHandle,     \* the Wallet the Custody Service resolved most recently
    lastResult,     \* the outcome of the operation that finished most recently
    fundOutcomes,   \* the outcomes fundWallet has had on the current Wallet object
    tx              \* the transact invocation

vars == <<sdk, currentWallet, nextObj, pending, lastHandle, lastResult, fundOutcomes, tx>>

\* No operation has finished yet.
NoResult ==
    [op |-> "none", before |-> Null, after |-> Null, error |-> "",
     custody |-> "none", planning |-> FALSE, value |-> Null]

\* The outcome of one operation: the slot before and after it, the error it
\* threw ("" if none), the Custody Service call it made ("none" if none),
\* whether it called the Planning Service, and the Wallet it returned.
Result(op, before, after, error, custody, planning, value) ==
    [op |-> op, before |-> before, after |-> after, error |-> error,
     custody |-> custody, planning |-> planning, value |-> value]

\* The prompt a caller passes to transact.
Prompts == {"swap 1 ETH for USDC"}

\* No transact invocation has been made. returned holds what the promise
\* resolved with: nothing, or the one list transact returned.
IdleTx ==
    [pc |-> "idle", prompt |-> "", wallet |-> Null, addressCalls |-> 0,
     planning |-> <<>>, plan |-> <<>>, i |-> 0, cont |-> "end", calls |-> <<>>,
     txHashes |-> <<>>, returned |-> {}, error |-> ""]

\* ------------------------------------------------------ the dispatcher's code

\* decodeFunctionData({ abi, data }): the function name and the arguments.
DecodeFunctionData(abi, data) ==
    [functionName |-> [name |-> "<decoded>", of |-> data],
     args |-> [abi |-> abi, of |-> data]]

\* No amount is handed to the call.
NoAmount == [as |-> "none", units |-> 0, decimals |-> 0]

\* Number(step.value): the value in wei.
NumberOf(value) == [as |-> "number", units |-> value, decimals |-> 0]

\* BigInt(step.value): the value in wei.
BigIntOf(value) == [as |-> "bigint", units |-> value, decimals |-> 0]

\* parseFloat(formatUnits(BigInt(txStep.value), 18)): the value in ether,
\* units * 10^-decimals.
EtherOf(value) == [as |-> "number", units |-> value, decimals |-> ETH_DECIMALS]

\* this.currentWallet.createTransfer({ destination, amount, assetId })
CreateTransfer(w, i, destination, amount) ==
    [api |-> "createTransfer", wallet |-> w.obj, action |-> i, to |-> destination,
     method |-> [name |-> "", of |-> 0], abi |-> "none", decodedWith |-> "none",
     args |-> [abi |-> "none", of |-> 0], amount |-> amount, assetId |-> "eth"]

\* this.currentWallet.invokeContract({ contractAddress, method, abi, args, amount });
\* decodedWith is the abi the method and the arguments were decoded against.
InvokeContract(w, i, contractAddress, method, abi, decoded, amount, decodedWith) ==
    [api |-> "invokeContract", wallet |-> w.obj, action |-> i, to |-> contractAddress,
     method |-> method, abi |-> abi, decodedWith |-> decodedWith,
     args |-> decoded.args, amount |-> amount, assetId |-> "none"]

\* The invocation throws: transact's promise rejects with the error.
Fail(t, e) == [t EXCEPT !.pc = "failed", !.error = e]

\* A call is handed to the Custody Service and awaited; cont is the code that
\* runs once it is confirmed.
Await(t, call, cont) ==
    [t EXCEPT !.pc = "awaitCall", !.calls = Append(@, call), !.cont = cont]

\* return txHashes
Return(t) == [t EXCEPT !.pc = "returned", !.returned = {t.txHashes}]

\* data.steps![k] for a JavaScript index k.
HasStep(steps, k) == k + 1 <= Len(steps)
StepAt(steps, k) == steps[k + 1]

\* data.steps![data.steps!.length - 1]
LastStep(steps) == steps[Len(steps)]

\* data.fromToken?.address === NULL_ADDRESS
IsNativeAsset_m(tr) == tr.fromToken # "0xToken"
IsNativeAsset(tr) == tr.fromToken = NULL_ADDRESS

\* const approveNeeded = data.steps!.length > 1
ApproveNeeded_m(steps) == Len(steps) > 2
ApproveNeeded(steps) == Len(steps) > 1

\* transfer, for a step list with a step 0: the native transfer or the ERC-20
\* transfer call.
TransferCall(t, w, ok) ==
    LET tr == t.plan[t.i]
        txStep == StepAt(tr.steps, 0)
    IN IF IsNativeAsset(tr)
       THEN Await(t, CreateTransfer(w, t.i, txStep.to, EtherOf(txStep.value)), "end")
       ELSE IF ~ok THEN Fail(t, ERR_DECODE)
       ELSE Await(t, InvokeContract(w, t.i, txStep.to, [name |-> "transfer", of |-> 0],
                                    "erc20Abi", DecodeFunctionData("erc20Abi", txStep.data),
                                    NoAmount, "erc20Abi"),
                  "end")

\* amount: BigInt(value) for swap, Number(value) for the other actions.
OperativeAmount(tr, step) ==
    IF tr.action = "swap" THEN BigIntOf(step.value) ELSE NumberOf(step.value)

\* The operative call of an approval action, built from the last step.
OperativeCall(t, w, ok) ==
    LET tr == t.plan[t.i]
        step == LastStep(tr.steps)
        decodeAbi == OperativeDecodeAbi(tr, step)
        decoded == DecodeFunctionData(decodeAbi, step.data)
    IN IF ~ok THEN Fail(t, ERR_DECODE)
       ELSE Await(t, InvokeContract(w, t.i, step.to, decoded.functionName,
                                    OperativeInvokeAbi(tr, step), decoded,
                                    OperativeAmount(tr, step), decodeAbi),
                  "end")

\* ApprovalCall sending the operative call without awaiting the approval.
ApprovalCall_m(t, w, ok) ==
    LET tr == t.plan[t.i]
        step == StepAt(tr.steps, 0)
        decoded == DecodeFunctionData("erc20Abi", step.data)
    IN IF ~ok THEN Fail(t, ERR_DECODE)
       ELSE OperativeCall(Await(t, InvokeContract(w, t.i, step.to,
                                                  decoded.functionName, "erc20Abi",
                                                  decoded, NoAmount, "erc20Abi"),
                                "operative"),
                          w, ok)

\* The approval of step 0, decoded against erc20Abi.
ApprovalCall(t, w, ok) ==
    LET tr == t.plan[t.i]
        step == StepAt(tr.steps, 0)
        decoded == DecodeFunctionData("erc20Abi", step.data)
    IN IF ~ok THEN Fail(t, ERR_DECODE)
       ELSE Await(t, InvokeContract(w, t.i, step.to, decoded.functionName, "erc20Abi",
                                    decoded, NoAmount, "erc20Abi"),
                  "operative")

\* EnsCall with the registration built from the last step instead of step 1.
EnsCall_m(t, w, ok, k, cont) ==
    LET tr == t.plan[t.i]
        j == IF k = 0 THEN 0 ELSE Len(tr.steps) - 1
    IN IF ~HasStep(tr.steps, j) THEN Fail(t, ERR_TYPE)
       ELSE IF ~ok THEN Fail(t, ERR_DECODE)
       ELSE LET step == StepAt(tr.steps, j)
                decoded == DecodeFunctionData("ENS_REGISTRAR_CONTROLLER_ABI", step.data)
            IN Await(t, InvokeContract(w, t.i, step.to, decoded.functionName,
                                       "ENS_REGISTRAR_CONTROLLER_ABI", decoded,
                                       NumberOf(step.value),
                                       "ENS_REGISTRAR_CONTROLLER_ABI"),
                     cont)

\* An ENS call built from the step at JavaScript index k; reading a step the
\* list does not have throws a TypeError.
EnsCall(t, w, ok, k, cont) ==
    LET tr == t.plan[t.i]
    IN IF ~HasStep(tr.steps, k) THEN Fail(t, ERR_TYPE)
       ELSE IF ~ok THEN Fail(t, ERR_DECODE)
       ELSE LET step == StepAt(tr.steps, k)
                decoded == DecodeFunctionData("ENS_REGISTRAR_CONTROLLER_ABI", step.data)
            IN Await(t, InvokeContract(w, t.i, step.to, decoded.functionName,
                                       "ENS_REGISTRAR_CONTROLLER_ABI", decoded,
                                       NumberOf(step.value),
                                       "ENS_REGISTRAR_CONTROLLER_ABI"),
                     cont)

\* Loop leaving the for loop at an action with an empty step list instead of
\* moving on to the next action.
RECURSIVE Loop_m(_, _, _)
Loop_m(t, w, ok) ==
    IF t.i > Len(t.plan) THEN Return(t)
    ELSE LET tr == t.plan[t.i]
             break == Return(t)
         IN IF tr.action = "transfer"
            THEN IF ~HasStep(tr.steps, 0) THEN break ELSE TransferCall(t, w, ok)
            ELSE IF tr.action \in ApprovalActions
            THEN IF Len(tr.steps) = 0 THEN break
                 ELSE IF ApproveNeeded(tr.steps) THEN ApprovalCall(t, w, ok)
                 ELSE OperativeCall(t, w, ok)
            ELSE IF tr.action = "ensregistration"
            THEN IF Len(tr.steps) = 0 THEN break
                 ELSE EnsCall(t, w, ok, 0, "registration")
            ELSE IF tr.action = "ensrenewal"
            THEN IF Len(tr.steps) = 0 THEN break
                 ELSE EnsCall(t, w, ok, 0, "end")
            ELSE Loop_m([t EXCEPT !.i = @ + 1], w, ok)

\* Loop rejecting an action kind it has no branch for.
RECURSIVE Loop_m2(_, _, _)
Loop_m2(t, w, ok) ==
    IF t.i > Len(t.plan) THEN Return(t)
    ELSE LET tr == t.plan[t.i]
             continue == Loop_m2([t EXCEPT !.i = @ + 1], w, ok)
         IN IF tr.action = "transfer"
            THEN IF ~HasStep(tr.steps, 0) THEN continue ELSE TransferCall(t, w, ok)
            ELSE IF tr.action \in ApprovalActions
            THEN IF Len(tr.steps) = 0 THEN continue
                 ELSE IF ApproveNeeded(tr.steps) THEN ApprovalCall(t, w, ok)
                 ELSE OperativeCall(t, w, ok)
            ELSE IF tr.action = "ensregistration"
            THEN IF Len(tr.steps) = 0 THEN continue
                 ELSE EnsCall(t, w, ok, 0, "registration")
            ELSE IF tr.action = "ensrenewal"
            THEN IF Len(tr.steps) = 0 THEN continue
                 ELSE EnsCall(t, w, ok, 0, "end")
            ELSE Fail(t, ERR_TYPE)

\* for (const transactionResult of brianResponse) { ... } return txHashes:
\* the loop from the Transaction Result at t.i up to its first await. w is
\* this.currentWallet and ok says whether the one decodeFunctionData on the way
\* succeeds.
RECURSIVE Loop(_, _, _)
Loop(t, w, ok) ==
    IF t.i > Len(t.plan) THEN Return(t)
    ELSE LET tr == t.plan[t.i]
             continue == Loop([t EXCEPT !.i = @ + 1], w, ok)
         IN IF tr.action = "transfer"
            THEN IF ~HasStep(tr.steps, 0) THEN continue ELSE TransferCall(t, w, ok)
            ELSE IF tr.action \in ApprovalActions
            THEN IF Len(tr.steps) = 0 THEN continue
                 ELSE IF ApproveNeeded(tr.steps) THEN ApprovalCall(t, w, ok)
                 ELSE OperativeCall(t, w, ok)
            ELSE IF tr.action = "ensregistration"
            THEN IF Len(tr.steps) = 0 THEN continue
                 ELSE EnsCall(t, w, ok, 0, "registration")
            ELSE IF tr.action = "ensrenewal"
            THEN IF Len(tr.steps) = 0 THEN continue
                 ELSE EnsCall(t, w, ok, 0, "end")
            ELSE continue

\* txHashes.push(await tx.wait()), then the code up to the next await.
Resume(t, w, ok) ==
    LET k == Len(t.calls)
        pushed == [t EXCEPT !.txHashes = Append(@, [receiptOf |-> k])]
    IN IF t.cont = "operative" THEN OperativeCall(pushed, w, ok)
       ELSE IF t.cont = "registration" THEN EnsCall(pushed, w, ok, 1, "end")
       ELSE Loop([pushed EXCEPT !.i = @ + 1], w, ok)

\* ------------------------------------------------------------------ actions

Constructed == sdk.status = "constructed"

\* createWallet({ networkId, ... }) up to its await: Wallet.create is requested.
CreateWalletStart ==
    /\ Constructed
    /\ nextObj <= MaxWallets
    /\ \E n \in Networks :
         pending' = pending \cup {[req |-> nextObj, op |-> "createWallet", networkId |-> n]}
    /\ nextObj' = nextObj + 1
    /\ UNCHANGED <<sdk, currentWallet, lastHandle, lastResult, fundOutcomes, tx>>

\* importWallet(walletData) up to its await: Wallet.import is requested.
ImportWalletStart ==
    /\ Constructed
    /\ nextObj <= MaxWallets
    /\ pending' = pending \cup
         {[req |-> nextObj, op |-> "importWallet", networkId |-> IMPORTED_NETWORK]}
    /\ nextObj' = nextObj + 1
    /\ UNCHANGED <<sdk, currentWallet, lastHandle, lastResult, fundOutcomes, tx>>

\* WalletResolved with an importWallet that returns the Wallet without storing it.
WalletResolved_m ==
    \E r \in pending : \E a \in DefaultAddresses(r) :
        LET wallet == [obj |-> r.req, networkId |-> r.networkId, defaultAddress |-> a]
        IN /\ pending' = pending \ {r}
           /\ currentWallet' = IF r.op = "importWallet" THEN currentWallet ELSE wallet
           /\ lastHandle' = wallet
           /\ lastResult' = Result(r.op, currentWallet, currentWallet', "", r.op,
                                   FALSE, wallet)
           /\ fundOutcomes' = {}
           /\ UNCHANGED <<sdk, nextObj, tx>>

\* this.currentWallet = await Wallet.create(...) / Wallet.import(...);
\* return this.currentWallet
WalletResolved ==
    \E r \in pending : \E a \in DefaultAddresses(r) :
        LET wallet == [obj |-> r.req, networkId |-> r.networkId, defaultAddress |-> a]
        IN /\ pending' = pending \ {r}
           /\ currentWallet' = wallet
           /\ lastHandle' = wallet
           /\ lastResult' = Result(r.op, currentWallet, currentWallet', "", r.op,
                                   FALSE, currentWallet')
           /\ fundOutcomes' = {}
           /\ UNCHANGED <<sdk, nextObj, tx>>

\* Wallet.create / Wallet.import rejects: the assignment never runs.
WalletRejected ==
    \E r \in pending :
        /\ pending' = pending \ {r}
        /\ lastResult' = Result(r.op, currentWallet, currentWallet, ERR_CUSTODY, r.op,
                                FALSE, Null)
        /\ UNCHANGED <<sdk, currentWallet, nextObj, lastHandle, fundOutcomes, tx>>

\* exportWallet()
ExportWallet ==
    /\ Constructed
    /\ lastResult' =
         IF NoWallet(currentWallet)
         THEN Result("exportWallet", currentWallet, currentWallet, ERR_NO_WALLET,
                     "none", FALSE, Null)
         ELSE Result("exportWallet", currentWallet, currentWallet, "", "export",
                     FALSE, Null)
    /\ UNCHANGED <<sdk, currentWallet, nextObj, pending, lastHandle, fundOutcomes, tx>>

\* saveWallet__insecure(filePath, encrypt)
SaveWallet ==
    /\ Constructed
    /\ lastResult' =
         IF NoWallet(currentWallet)
         THEN Result("saveWallet__insecure", currentWallet, currentWallet, ERR_NO_WALLET,
                     "none", FALSE, Null)
         ELSE Result("saveWallet__insecure", currentWallet, currentWallet, "", "saveSeed",
                     FALSE, Null)
    /\ UNCHANGED <<sdk, currentWallet, nextObj, pending, lastHandle, fundOutcomes, tx>>

\* getDefaultAddress()
GetDefaultAddress ==
    /\ Constructed
    /\ lastResult' =
         IF NoWallet(currentWallet)
         THEN Result("getDefaultAddress", currentWallet, currentWallet, ERR_NO_WALLET,
                     "none", FALSE, Null)
         ELSE Result("getDefaultAddress", currentWallet, currentWallet, "",
                     "getDefaultAddress", FALSE, Null)
    /\ UNCHANGED <<sdk, currentWallet, nextObj, pending, lastHandle, fundOutcomes, tx>>

\* fundWallet(): the faucet request, when it is made, resolves or rejects.
FundWallet ==
    /\ Constructed
    /\ IF NoWallet(currentWallet)
       THEN /\ lastResult' = Result("fundWallet", currentWallet, currentWallet,
                                    ERR_NO_WALLET, "none", FALSE, Null)
            /\ UNCHANGED fundOutcomes
       ELSE IF NotOnSepolia(currentWallet)
       THEN /\ lastResult' = Result("fundWallet", currentWallet, currentWallet,
                                    ERR_NOT_SEPOLIA, "none", FALSE, Null)
            /\ fundOutcomes' = fundOutcomes \cup {"refused"}
       ELSE /\ \E ok \in BOOLEAN :
                 lastResult' = Result("fundWallet", currentWallet, currentWallet,
                                      IF ok THEN "" ELSE ERR_CUSTODY, "faucet",
                                      FALSE, Null)
            /\ fundOutcomes' = fundOutcomes \cup {"faucet"}
    /\ UNCHANGED <<sdk, currentWallet, nextObj, pending, lastHandle, tx>>

\* The outcome of transact, once its promise has settled.
Settle(t) ==
    IF t.pc \in {"returned", "failed"}
    THEN lastResult' =
           Result("transact", t.wallet, currentWallet, t.error,
                  IF t.addressCalls = 0 /\ t.calls = <<>> THEN "none" ELSE "wallet",
                  t.planning # <<>>, Null)
    ELSE UNCHANGED lastResult

\* transact(prompt) up to its first await: the wallet check, then
\* this.getDefaultAddress() with its own wallet check.
TransactStart ==
    /\ Constructed
    /\ tx.pc \in {"idle", "returned", "failed"}
    /\ \E prompt \in Prompts :
         LET t == [IdleTx EXCEPT !.prompt = prompt, !.wallet = currentWallet]
         IN /\ tx' = IF NoWallet(currentWallet) THEN Fail(t, ERR_NO_WALLET)
                     ELSE [t EXCEPT !.pc = "awaitAddress", !.addressCalls = 1]
            /\ Settle(tx')
    /\ UNCHANGED <<sdk, currentWallet, nextObj, pending, lastHandle, fundOutcomes>>

\* AddressResolved without the check of the address it received.
AddressResolved_m ==
    /\ tx.pc = "awaitAddress"
    /\ tx' = [tx EXCEPT !.pc = "awaitPlan",
                        !.planning = Append(@, [prompt |-> tx.prompt,
                                                address |-> tx.wallet.defaultAddress])]
    /\ Settle(tx')
    /\ UNCHANGED <<sdk, currentWallet, nextObj, pending, lastHandle, fundOutcomes>>

\* The default address arrives: if (!walletAddress) throw; else
\* this.brianSDK.transact({ prompt, address }) is requested.
AddressResolved ==
    /\ tx.pc = "awaitAddress"
    /\ tx' = IF tx.wallet.defaultAddress = NoAddress THEN Fail(tx, ERR_NO_ADDRESS)
             ELSE [tx EXCEPT !.pc = "awaitPlan",
                             !.planning = Append(@, [prompt |-> tx.prompt,
                                                     address |-> tx.wallet.defaultAddress])]
    /\ Settle(tx')
    /\ UNCHANGED <<sdk, currentWallet, nextObj, pending, lastHandle, fundOutcomes>>

\* The Custody Service rejects the address lookup.
AddressRejected ==
    /\ tx.pc = "awaitAddress"
    /\ tx' = Fail(tx, ERR_CUSTODY)
    /\ Settle(tx')
    /\ UNCHANGED <<sdk, currentWallet, nextObj, pending, lastHandle, fundOutcomes>>

\* The Planning Service answers with a plan; the loop runs to its first await.
BrianResponds(plans) ==
    /\ tx.pc = "awaitPlan"
    /\ \E plan \in plans, ok \in BOOLEAN :
         tx' = Loop([tx EXCEPT !.plan = plan, !.i = 1], currentWallet, ok)
    /\ Settle(tx')
    /\ UNCHANGED <<sdk, currentWallet, nextObj, pending, lastHandle, fundOutcomes>>

\* The Planning Service rejects.
BrianRejects ==
    /\ tx.pc = "awaitPlan"
    /\ tx' = Fail(tx, ERR_PLANNING)
    /\ Settle(tx')
    /\ UNCHANGED <<sdk, currentWallet, nextObj, pending, lastHandle, fundOutcomes>>

\* The outstanding call is confirmed: its receipt is pushed and the code runs
\* to the next await.
CallConfirmed ==
    /\ tx.pc = "awaitCall"
    /\ \E ok \in BOOLEAN : tx' = Resume(tx, currentWallet, ok)
    /\ Settle(tx')
    /\ UNCHANGED <<sdk, currentWallet, nextObj, pending, lastHandle, fundOutcomes>>

\* CallRejected catching the rejection and moving on to the next action.
CallRejected_m ==
    /\ tx.pc = "awaitCall"
    /\ \E ok \in BOOLEAN :
         tx' = Loop([tx EXCEPT !.i = @ + 1], currentWallet, ok)
    /\ Settle(tx')
    /\ UNCHANGED <<sdk, currentWallet, nextObj, pending, lastHandle, fundOutcomes>>

\* The Custody Service rejects the outstanding call.
CallRejected ==
    /\ tx.pc = "awaitCall"
    /\ tx' = Fail(tx, ERR_CUSTODY)
    /\ Settle(tx')
    /\ UNCHANGED <<sdk, currentWallet, nextObj, pending, lastHandle, fundOutcomes>>

\* ------------------------------------------------------------ specifications

\* Any options may be handed to the constructor; nothing else has happened.
Init ==
    /\ sdk \in {constructor(opts) : opts \in Options}
    /\ currentWallet = Null
    /\ nextObj = 1
    /\ pending = {}
    /\ lastHandle = Null
    /\ lastResult = NoResult
    /\ fundOutcomes = {}
    /\ tx = IdleTx

Next ==
    \/ CreateWalletStart
    \/ ImportWalletStart
    \/ WalletResolved
    \/ WalletRejected
    \/ ExportWallet
    \/ SaveWallet
    \/ GetDefaultAddress
    \/ FundWallet
    \/ TransactStart
    \/ AddressResolved
    \/ AddressRejected
    \/ BrianResponds(LifecyclePlans)
    \/ BrianRejects
    \/ CallConfirmed
    \/ CallRejected

Spec == Init /\ [][Next]_vars

\* The wallet a first createWallet({ networkId: "base-sepolia" }) leaves current.
FirstWallet == [obj |-> 1, networkId |-> "base-sepolia", defaultAddress |-> 1]

\* An SDK constructed with every option set, after its first createWallet.
InitDispatch ==
    /\ sdk = constructor([brianApiKey |-> "set", coinbaseApiKeyName |-> "set",
                          coinbaseApiKeySecret |-> "set", coinbaseFilePath |-> "set"])
    /\ currentWallet = FirstWallet
    /\ nextObj = 2
    /\ pending = {}
    /\ lastHandle = FirstWallet
    /\ lastResult = Result("createWallet", Null, FirstWallet, "", "createWallet",
                           FALSE, FirstWallet)
    /\ fundOutcomes = {}
    /\ tx = IdleTx

\* transact alone, over every plan.
NextDispatch ==
    \/ TransactStart
    \/ AddressResolved
    \/ AddressRejected
    \/ BrianResponds(Plans)
    \/ BrianRejects
    \/ CallConfirmed
    \/ CallRejected

SpecDispatch == InitDispatch /\ [][NextDispatch]_vars

\* ============================================================== properties

Truthy(x) == ~Falsy(x)

\* ------------------------------------------------------------------------ C1
\* C1: with an empty current-wallet slot, exportWallet, saveWallet__insecure,
\* getDefaultAddress, fundWallet and transact each fail with "No wallet
\* created", call neither the Planning Service nor the Custody Service, and
\* leave the slot empty.
C1_NoWalletFails ==
    /\ (/\ lastResult.op \in {"exportWallet", "saveWallet__insecure",
                              "getDefaultAddress", "fundWallet", "transact"}
        /\ lastResult.before = Null)
       => /\ lastResult.error = "No wallet created"
          /\ lastResult.custody = "none"
          /\ ~lastResult.planning
          /\ lastResult.after = Null
    /\ (tx.pc # "idle" /\ tx.wallet = Null)
       => /\ tx.pc = "failed"
          /\ tx.error = "No wallet created"
          /\ tx.addressCalls = 0
          /\ tx.planning = <<>>
          /\ tx.calls = <<>>

\* transact was called on an SDK that never had a wallet, and was refused.
C1_Witness ==
    /\ lastResult.op = "transact"
    /\ lastResult.before = Null
    /\ lastResult.error = "No wallet created"
    /\ tx.pc = "failed"
    /\ currentWallet = Null

\* ------------------------------------------------------------------------ C2
\* C2: with an absent or empty brianApiKey the constructor throws "Brian API
\* key is required" whatever the other options are, and configures neither the
\* Planning Service SDK nor the Custody Service SDK.
C2_BrianKeyRequired ==
    (sdk.opts.brianApiKey = Undefined \/ sdk.opts.brianApiKey = "")
    => /\ sdk.status = "threw"
       /\ sdk.error = "Brian API key is required"
       /\ ~sdk.brianSDK
       /\ sdk.coinbase = "none"

\* An empty brianApiKey next to complete custody credentials was refused.
C2_Witness ==
    /\ sdk.opts.brianApiKey = ""
    /\ sdk.opts.coinbaseApiKeyName = "set"
    /\ sdk.opts.coinbaseApiKeySecret = "set"
    /\ sdk.opts.coinbaseFilePath = "set"
    /\ sdk.status = "threw"

\* ------------------------------------------------------------------------ C3
\* C3: with a brianApiKey, the constructor throws "Coinbase API key name +
\* secret, or file path are required" whenever the file path is absent and the
\* key name and the key secret are not both supplied.
C3_IncompleteCredentialsFail ==
    (/\ Truthy(sdk.opts.brianApiKey)
     /\ Falsy(sdk.opts.coinbaseFilePath)
     /\ ~(Truthy(sdk.opts.coinbaseApiKeyName) /\ Truthy(sdk.opts.coinbaseApiKeySecret)))
    => /\ sdk.status = "threw"
       /\ sdk.error = "Coinbase API key name + secret, or file path are required"

\* A key name without a secret and without a file path was refused.
C3_Witness ==
    /\ sdk.opts.brianApiKey = "set"
    /\ sdk.opts.coinbaseApiKeyName = "set"
    /\ sdk.opts.coinbaseApiKeySecret = Undefined
    /\ sdk.opts.coinbaseFilePath = Undefined
    /\ sdk.status = "threw"
    /\ sdk.error = "Coinbase API key name + secret, or file path are required"

\* ------------------------------------------------------------------------ C4
\* C4: with a brianApiKey, construction succeeds when (a) key name and key
\* secret are supplied without a file path, and then Coinbase.configure is
\* used, or (b) the file path is supplied without key name and key secret, and
\* then Coinbase.configureFromJson is used.
C4_CompleteFormConstructs ==
    /\ (/\ Truthy(sdk.opts.brianApiKey)
        /\ Truthy(sdk.opts.coinbaseApiKeyName)
        /\ Truthy(sdk.opts.coinbaseApiKeySecret)
        /\ Falsy(sdk.opts.coinbaseFilePath))
       => (sdk.status = "constructed" /\ sdk.coinbase = "configure")
    /\ (/\ Truthy(sdk.opts.brianApiKey)
        /\ Falsy(sdk.opts.coinbaseApiKeyName)
        /\ Falsy(sdk.opts.coinbaseApiKeySecret)
        /\ Truthy(sdk.opts.coinbaseFilePath))
       => (sdk.status = "constructed" /\ sdk.coinbase = "configureFromJson")

\* ------------------------------------------------------------------------ C5
\* C5: fundWallet on a current wallet requests the faucet if and only if the
\* wallet's network is "base-sepolia"; on any other network it fails with
\* "Wallet is not on Sepolia" without a faucet request; and one wallet never
\* gets two different outcomes.
C5_FundOnlyOnSepolia ==
    /\ (lastResult.op = "fundWallet" /\ lastResult.before # Null)
       => /\ (lastResult.custody = "faucet") <=> (lastResult.before.networkId = "base-sepolia")
          /\ (lastResult.before.networkId # "base-sepolia")
             => (lastResult.error = "Wallet is not on Sepolia" /\ lastResult.custody = "none")
          /\ lastResult.custody \in {"faucet", "none"}
    /\ Cardinality(fundOutcomes) <= 1
    /\ ("faucet" \in fundOutcomes) => (currentWallet.networkId = "base-sepolia")
    /\ ("refused" \in fundOutcomes) => (currentWallet.networkId # "base-sepolia")

\* fundWallet was refused on a wallet that is not on base-sepolia.
C5_Witness ==
    /\ lastResult.op = "fundWallet"
    /\ lastResult.before.networkId = "base-mainnet"
    /\ lastResult.error = "Wallet is not on Sepolia"
    /\ fundOutcomes = {"refused"}

\* ------------------------------------------------------------------------ C6
\* C6: the slot always holds the Wallet of the create/import that completed
\* most recently (null before the first); the slot changes only in the step in
\* which a create/import completes successfully, and then to the Wallet that
\* call returns; a rejected create/import, export, save, address lookup, fund
\* and transact leave it as it is.
C6_SlotFollowsLastCompleted ==
    /\ [](currentWallet = lastHandle)
    /\ [][(currentWallet' # currentWallet)
            => /\ lastResult'.op \in {"createWallet", "importWallet"}
               /\ lastResult'.error = ""
               /\ lastResult'.value = currentWallet'
               /\ lastResult'.before = currentWallet
               /\ \E r \in pending : r \notin pending' /\ currentWallet'.obj = r.req
               /\ tx' = tx]_vars
    /\ [][(lastResult'.op \in {"createWallet", "importWallet"} /\ lastResult'.error # "")
            => currentWallet' = currentWallet]_vars

\* The request made second completed first and the one made first completed
\* last: the slot holds the Wallet of the first request.
C6_Witness ==
    /\ currentWallet.obj = 1
    /\ lastResult.op \in {"createWallet", "importWallet"}
    /\ lastResult.before.obj = 2
    /\ lastResult.value = currentWallet

\* ------------------------------------------------- the calls of one action

\* The positions in tx.calls of the calls issued for the i-th Transaction Result.
CallIndexes(i) == {k \in 1..Len(tx.calls) : tx.calls[k].action = i}

\* The loop has reached the i-th Transaction Result.
Reached(i) == tx.i >= i

\* The loop has left the i-th Transaction Result behind.
Passed(i) == tx.i > i

\* The call at position k was confirmed: its receipt is in txHashes, at k.
Confirmed(k) == k <= Len(tx.txHashes) /\ tx.txHashes[k] = [receiptOf |-> k]

\* The call is a contract invocation built from step, decoded against abi and
\* invoked with abi.
IsContractCall(c, step, abi) ==
    /\ c.api = "invokeContract"
    /\ c.to = step.to
    /\ c.abi = abi
    /\ c.decodedWith = abi
    /\ c.args = [abi |-> abi, of |-> step.data]

\* A failure of the environment: the Custody Service rejected a call or the
\* call data did not decode.
EnvironmentFailure == tx.pc = "failed" /\ tx.error \in {ERR_CUSTODY, ERR_DECODE}

\* ------------------------------------------------------------------------ C7
\* C7: a transfer action with a non-empty step list issues exactly one call:
\* for the zero-address source asset a native transfer with step 0's
\* destination and value (in ether) and no contract call; for any other or an
\* absent source asset a contract call to step 0's destination with the ERC-20
\* ABI and the arguments decoded from step 0's call data, and no native
\* transfer. The call is missing only when step 0's call data does not decode.
C7_TransferIssuesOneCall ==
    \A i \in 1..Len(tx.plan) :
        LET tr == tx.plan[i]
            ks == CallIndexes(i)
        IN (tr.action = "transfer" /\ Len(tr.steps) > 0)
           => /\ Cardinality(ks) <= 1
              /\ ~Reached(i) => ks = {}
              /\ \A k \in ks :
                   LET c == tx.calls[k]
                   IN IF tr.fromToken = "0x0000000000000000000000000000000000000000"
                      THEN /\ c.api = "createTransfer"
                           /\ c.to = tr.steps[1].to
                           /\ c.amount.units = tr.steps[1].value
                           /\ c.amount.decimals = 18
                           /\ c.assetId = "eth"
                      ELSE /\ IsContractCall(c, tr.steps[1], "erc20Abi")
                           /\ c.method.name = "transfer"
              /\ (Reached(i) /\ ks = {})
                 => /\ tx.i = i
                    /\ tx.pc = "failed"
                    /\ tx.error = ERR_DECODE
                    /\ tr.fromToken # "0x0000000000000000000000000000000000000000"

\* A transfer whose source asset is absent went out as one ERC-20 contract
\* call built from step 0 of three steps, and transact returned.
C7_Witness ==
    /\ tx.pc = "returned"
    /\ Len(tx.plan) = 1
    /\ tx.plan[1].action = "transfer"
    /\ tx.plan[1].fromToken = Undefined
    /\ Len(tx.plan[1].steps) = 3
    /\ Len(tx.calls) = 1
    /\ tx.calls[1].api = "invokeContract"
    /\ tx.calls[1].to = tx.plan[1].steps[1].to

\* ------------------------------------------------------------------------ C8
\* C8: a swap, bridge, deposit, withdraw, borrow or repay action with one step
\* issues no approval and exactly one operative call; with more than one step
\* it issues exactly one approval, built from step 0 and decoded against the
\* ERC-20 ABI, which is confirmed before exactly one operative call built from
\* the last step is issued: two calls, in that order. A call is missing only
\* after a failure of the environment.
C8_ApprovalThenOperative ==
    \A i \in 1..Len(tx.plan) :
        LET tr == tx.plan[i]
            n == Len(tr.steps)
            ks == CallIndexes(i)
            first == CHOOSE k \in ks : \A j \in ks : k <= j
            last == CHOOSE k \in ks : \A j \in ks : j <= k
            IsOperative(c) ==
                /\ c.api = "invokeContract"
                /\ c.to = tr.steps[n].to
                /\ c.args.of = tr.steps[n].data
                /\ c.abi # "erc20Abi"
        IN (tr.action \in {"swap", "bridge", "deposit", "withdraw", "borrow", "repay"}
            /\ n > 0)
           => /\ ~Reached(i) => ks = {}
              /\ \A k \in ks : tx.calls[k].api = "invokeContract"
              /\ (n = 1)
                 => /\ Cardinality(ks) <= 1
                    /\ \A k \in ks : IsOperative(tx.calls[k])
                    /\ (Passed(i) \/ tx.pc = "returned") => Cardinality(ks) = 1
              /\ (n > 1)
                 => /\ Cardinality(ks) <= 2
                    /\ ks # {} => IsContractCall(tx.calls[first], tr.steps[1], "erc20Abi")
                    /\ Cardinality(ks) = 2
                       => /\ last = first + 1
                          /\ IsOperative(tx.calls[last])
                          /\ Confirmed(first)
                    /\ (Passed(i) \/ tx.pc = "returned") => Cardinality(ks) = 2
              /\ (Reached(i) /\ Cardinality(ks) < (IF n = 1 THEN 1 ELSE 2))
                 => (tx.i = i /\ (EnvironmentFailure \/ tx.pc = "awaitCall"))

\* A bridge of three steps went out as the approval of step 0 and then the
\* bridge call of step 2, and transact returned both receipts.
C8_Witness ==
    /\ tx.pc = "returned"
    /\ Len(tx.plan) = 1
    /\ tx.plan[1].action = "bridge"
    /\ Len(tx.plan[1].steps) = 3
    /\ Len(tx.calls) = 2
    /\ tx.calls[1].abi = "erc20Abi"
    /\ tx.calls[1].to = tx.plan[1].steps[1].to
    /\ tx.calls[2].to = tx.plan[1].steps[3].to
    /\ Len(tx.txHashes) = 2

\* ------------------------------------------------------------------------ C9
\* The operative calls of the swap, bridge and deposit actions, as positions
\* in tx.calls: the calls to the destination of the action's last step.
SolverKeyedCalls ==
    {k \in 1..Len(tx.calls) :
        /\ tx.plan[tx.calls[k].action].action \in {"swap", "bridge", "deposit"}
        /\ tx.calls[k].to =
             tx.plan[tx.calls[k].action].steps[Len(tx.plan[tx.calls[k].action].steps)].to}

\* C9, as claimed: whatever the action (swap, bridge, deposit), the same solver
\* name selects the same ABI, and the ABI used to decode the operative step is
\* the ABI passed to the contract invocation.
C9_SameAbiForEveryAction ==
    /\ \A k \in SolverKeyedCalls : tx.calls[k].decodedWith = tx.calls[k].abi
    /\ \A k1, k2 \in SolverKeyedCalls :
         (tx.plan[tx.calls[k1].action].solver = tx.plan[tx.calls[k2].action].solver)
         => tx.calls[k1].abi = tx.calls[k2].abi

\* C9, amended: the ABI is a function of the action kind and the solver name.
\* swap and bridge select the Enso router for "Enso", the Bungee router for
\* "Bungee" and the LiFi router for any other name; deposit selects the Enso
\* router for "Enso" and the Lido ABI for any other name; the ABI used to
\* decode the operative step is the ABI passed to the contract invocation.
C9_AbiPerActionAndSolver ==
    \A k \in SolverKeyedCalls :
        LET c == tx.calls[k]
            tr == tx.plan[c.action]
        IN /\ c.decodedWith = c.abi
           /\ (tr.action \in {"swap", "bridge"})
              => c.abi = (CASE tr.solver = "Enso" -> "ENSO_ROUTER_ABI"
                            [] tr.solver = "Bungee" -> "BUNGEE_ROUTER_ABI"
                            [] OTHER -> "LIFI_ROUTER_ABI")
           /\ (tr.action = "deposit")
              => c.abi = (CASE tr.solver = "Enso" -> "ENSO_ROUTER_ABI"
                            [] OTHER -> "LIDO_ABI")

\* A deposit with solver "Bungee" was decoded and invoked with the Lido ABI.
C9_Witness ==
    /\ tx.pc = "returned"
    /\ Len(tx.plan) = 1
    /\ tx.plan[1].action = "deposit"
    /\ tx.plan[1].solver = "Bungee"
    /\ Len(tx.calls) = 1
    /\ tx.calls[1].abi = "LIDO_ABI"
    /\ tx.calls[1].decodedWith = "LIDO_ABI"

\* ----------------------------------------------------------------------- C10
\* The calls of an ENS action are contract calls against the registrar ABI,
\* the first built from step 0 and the second from step 1, the first confirmed
\* before the second is issued.
EnsCallsInOrder(i) ==
    LET tr == tx.plan[i]
        ks == CallIndexes(i)
        first == CHOOSE k \in ks : \A j \in ks : k <= j
        last == CHOOSE k \in ks : \A j \in ks : j <= k
    IN /\ ks # {}
          => IsContractCall(tx.calls[first], tr.steps[1], "ENS_REGISTRAR_CONTROLLER_ABI")
       /\ Cardinality(ks) = 2
          => /\ last = first + 1
             /\ Confirmed(first)
             /\ IsContractCall(tx.calls[last], tr.steps[2], "ENS_REGISTRAR_CONTROLLER_ABI")

\* C10, as claimed: once transact has settled without a failure of the
\* environment, an ENS registration with a non-empty step list of any length
\* has issued exactly two calls, and an ENS renewal exactly one.
C10_RegistrationAlwaysTwoCalls ==
    \A i \in 1..Len(tx.plan) :
        LET tr == tx.plan[i]
        IN (/\ Len(tr.steps) > 0
            /\ Reached(i)
            /\ tx.pc \in {"returned", "failed"}
            /\ ~EnvironmentFailure)
           => /\ (tr.action = "ensregistration") => Cardinality(CallIndexes(i)) = 2
              /\ (tr.action = "ensrenewal") => Cardinality(CallIndexes(i)) = 1

\* C10, amended: an ENS registration with at least two steps issues exactly
\* two calls against the registrar ABI, the commitment from step 0 confirmed
\* before the registration from step 1, whatever the solver and the length;
\* with exactly one step it issues the commitment only and then fails with a
\* TypeError; an ENS renewal with a non-empty step list issues exactly one
\* call, from step 0. A call is missing only after a failure of the environment.
C10_RegistrationNeedsTwoSteps ==
    \A i \in 1..Len(tx.plan) :
        LET tr == tx.plan[i]
            n == Len(tr.steps)
            ks == CallIndexes(i)
            settled == Reached(i) /\ tx.pc \in {"returned", "failed"} /\ ~EnvironmentFailure
        IN /\ (tr.action = "ensregistration" /\ n > 0)
              => /\ ~Reached(i) => ks = {}
                 /\ Cardinality(ks) <= (IF n = 1 THEN 1 ELSE 2)
                 /\ EnsCallsInOrder(i)
                 /\ (settled /\ n >= 2) => Cardinality(ks) = 2
                 /\ (settled /\ n = 1)
                    => /\ Cardinality(ks) = 1
                       /\ tx.pc = "failed"
                       /\ tx.error = ERR_TYPE
                       /\ tx.i = i
                       /\ Confirmed(CHOOSE k \in ks : TRUE)
           /\ (tr.action = "ensrenewal" /\ n > 0)
              => /\ ~Reached(i) => ks = {}
                 /\ Cardinality(ks) <= 1
                 /\ EnsCallsInOrder(i)
                 /\ settled => Cardinality(ks) = 1

\* An ENS registration of three steps with solver "Bungee" went out as the
\* commitment of step 0 and the registration of step 1, and transact returned.
C10_Witness ==
    /\ tx.pc = "returned"
    /\ Len(tx.plan) = 1
    /\ tx.plan[1].action = "ensregistration"
    /\ tx.plan[1].solver = "Bungee"
    /\ Len(tx.plan[1].steps) = 3
    /\ Len(tx.calls) = 2
    /\ tx.calls[1].to = tx.plan[1].steps[1].to
    /\ tx.calls[2].to = tx.plan[1].steps[2].to
    /\ Len(tx.txHashes) = 2

\* ----------------------------------------------------------------------- C11
\* The Transaction Result at i has a branch in the loop and a step for it to
\* act on.
Acts(i) == tx.plan[i].action # "unknown" /\ Len(tx.plan[i].steps) > 0

\* C11: when transact returns, the list it returns has one receipt for every
\* call issued, the receipt at position k being that of the k-th call; the
\* calls follow the plan's action order; an action with an empty step list has
\* no call and no receipt, and every action with steps, those after an empty
\* one included, has had its calls issued and confirmed.
C11_ReceiptsMatchCalls ==
    tx.pc = "returned"
    => /\ tx.returned = {tx.txHashes}
       /\ Len(tx.txHashes) = Len(tx.calls)
       /\ \A k \in 1..Len(tx.calls) : Confirmed(k)
       /\ \A k1, k2 \in 1..Len(tx.calls) :
            k1 < k2 => tx.calls[k1].action <= tx.calls[k2].action
       /\ \A k \in 1..Len(tx.calls) : tx.calls[k].action \in 1..Len(tx.plan)
       /\ \A i \in 1..Len(tx.plan) :
            /\ Len(tx.plan[i].steps) = 0 => CallIndexes(i) = {}
            /\ Acts(i) => CallIndexes(i) # {}

\* transact returned two receipts for a plan whose first action has no steps
\* and whose second action is a three-step deposit.
C11_Witness ==
    /\ tx.pc = "returned"
    /\ Len(tx.plan) = 2
    /\ tx.plan[1].action = "swap"
    /\ Len(tx.plan[1].steps) = 0
    /\ tx.plan[2].action = "deposit"
    /\ Len(tx.plan[2].steps) = 3
    /\ Len(tx.calls) = 2
    /\ tx.returned = {<<[receiptOf |-> 1], [receiptOf |-> 2]>>}

\* ----------------------------------------------------------------------- C12
\* The last call issued was never confirmed.
LastCallUnconfirmed == Len(tx.txHashes) < Len(tx.calls)

\* The invocation has ended on a Custody Service rejection of a contract or
\* transfer call, or on a decoding failure.
CallFailure ==
    /\ tx.pc = "failed"
    /\ tx.planning # <<>>
    /\ tx.error \in {ERR_CUSTODY, ERR_DECODE}

\* A step of a failed invocation is the start of the next invocation.
NoCallAfterFailure ==
    tx.pc = "failed" /\ tx' # tx
    => /\ tx'.calls = <<>>
       /\ tx'.txHashes = <<>>
       /\ tx'.pc \in {"awaitAddress", "failed"}

\* A step that fails the invocation issues no call, confirms none and keeps
\* the confirmed ones as they are.
FailureIssuesNothing ==
    tx.pc \in {"awaitCall", "awaitPlan"} /\ tx'.pc = "failed"
    => /\ tx'.error \in {ERR_CUSTODY, ERR_DECODE, ERR_PLANNING, ERR_TYPE}
       /\ tx'.calls = tx.calls
       /\ \A k \in 1..Len(tx.txHashes) : tx'.txHashes[k] = tx.txHashes[k]
       /\ tx'.returned = {}
       /\ lastResult'.op = "transact" /\ lastResult'.error = tx'.error

\* C12: a call the Custody Service rejects is the last call of its invocation:
\* the invocation has failed with the service's error as it came, every call
\* before it is confirmed and stays so, no call of the rest of the action or
\* of a later action exists, and nothing was returned. A decoding failure ends
\* the invocation the same way before the call it was for is issued. Once
\* failed, the invocation issues no call at all.
C12_FailureStopsTheInvocation ==
    /\ [](/\ \A k \in 1..Len(tx.calls) : k < Len(tx.calls) => Confirmed(k)
          /\ (LastCallUnconfirmed /\ tx.pc # "awaitCall")
             => /\ tx.pc = "failed"
                /\ tx.error = ERR_CUSTODY
                /\ Len(tx.calls) = Len(tx.txHashes) + 1
          /\ CallFailure
             => /\ tx.returned = {}
                /\ lastResult.op = "transact"
                /\ lastResult.error = tx.error
                /\ tx.i \in 1..Len(tx.plan)
                /\ \A k \in 1..Len(tx.calls) : tx.calls[k].action <= tx.i
                /\ \A i \in 1..Len(tx.plan) : i > tx.i => CallIndexes(i) = {}
                /\ tx.error = ERR_DECODE => Len(tx.calls) = Len(tx.txHashes)
                /\ tx.error = ERR_CUSTODY => LastCallUnconfirmed)
    /\ [][NoCallAfterFailure /\ FailureIssuesNothing]_vars

\* The Custody Service rejected the operative call of the first of two
\* actions, after confirming its approval: one receipt is held, the second
\* action has no call, and nothing was returned.
C12_Witness ==
    /\ tx.pc = "failed"
    /\ tx.error = ERR_CUSTODY
    /\ Len(tx.plan) = 2
    /\ tx.i = 1
    /\ Len(tx.plan[2].steps) > 0
    /\ tx.plan[2].action = "transfer"
    /\ Len(tx.calls) = 2
    /\ Len(tx.txHashes) = 1
    /\ tx.returned = {}

\* ----------------------------------------------------------------------- C13
\* A step of one invocation that issues a call issues one, and by then the
\* receipt of every call issued before it has been pushed.
IssuesAfterConfirmation ==
    Len(tx'.calls) > Len(tx.calls)
    => /\ Len(tx'.calls) = Len(tx.calls) + 1
       /\ Len(tx'.txHashes) = Len(tx.calls)
       /\ \A k \in 1..Len(tx.calls) :
            tx'.calls[k] = tx.calls[k] /\ tx'.txHashes[k] = [receiptOf |-> k]
       /\ tx'.pc = "awaitCall"

\* C13: at most one call of an invocation is unconfirmed, and only the last
\* one issued; a call is issued only when every earlier call is confirmed, so
\* an approval is confirmed before the operative call of its action exists and
\* the calls of an action are confirmed before a call of a later action exists.
C13_OneCallOutstanding ==
    /\ [](/\ Len(tx.calls) <= Len(tx.txHashes) + 1
          /\ Len(tx.txHashes) <= Len(tx.calls)
          /\ tx.pc = "awaitCall" => Len(tx.calls) = Len(tx.txHashes) + 1
          /\ \A k1, k2 \in 1..Len(tx.calls) :
               k1 < k2 => /\ Confirmed(k1)
                          /\ tx.calls[k1].action <= tx.calls[k2].action)
    /\ [][IssuesAfterConfirmation]_vars

\* The transfer of the second action is outstanding and the approval and the
\* operative call of the first action are both confirmed.
C13_Witness ==
    /\ tx.pc = "awaitCall"
    /\ Len(tx.plan) = 2
    /\ Len(tx.calls) = 3
    /\ tx.calls[1].action = 1
    /\ tx.plan[1].action \in ApprovalActions
    /\ tx.calls[1].to = tx.plan[1].steps[1].to
    /\ tx.calls[1].abi = "erc20Abi"
    /\ tx.calls[2].action = 1
    /\ tx.calls[3].action = 2
    /\ Confirmed(1)
    /\ Confirmed(2)
    /\ Len(tx.txHashes) = 2

\* ----------------------------------------------------------------------- C14
\* The address lookup of the invocation came back without an address.
AddressUnresolved ==
    /\ tx.wallet # Null
    /\ tx.wallet.defaultAddress = NoAddress
    /\ tx.pc # "awaitAddress"

\* C14: an invocation calls the Planning Service at most once, for a wallet
\* that exists and whose default address resolved, with the caller's prompt
\* and that address, and no contract or transfer call exists before it; when
\* the lookup brings no address the invocation has failed with "No wallet
\* address found" (or with the lookup's own rejection), without a Planning
\* Service call and without a contract or transfer call.
C14_PlanningOnceAfterPreconditions ==
    /\ Len(tx.planning) <= 1
    /\ tx.planning # <<>>
       => /\ ~NoWallet(tx.wallet)
          /\ tx.wallet.defaultAddress # NoAddress
          /\ tx.addressCalls = 1
          /\ tx.prompt \in Prompts
          /\ tx.planning[1] = [prompt |-> tx.prompt,
                               address |-> tx.wallet.defaultAddress]
    /\ (tx.calls # <<>> \/ tx.plan # <<>> \/ tx.pc \in {"awaitPlan", "awaitCall", "returned"})
       => tx.planning # <<>>
    /\ AddressUnresolved
       => /\ tx.pc = "failed"
          /\ tx.error \in {ERR_NO_ADDRESS, ERR_CUSTODY}
          /\ tx.planning = <<>>
          /\ tx.calls = <<>>
          /\ lastResult.op = "transact"
             => lastResult.error = tx.error /\ ~lastResult.planning
    /\ (tx.pc = "failed" /\ tx.error = ERR_NO_ADDRESS)
       => AddressUnresolved /\ tx.planning = <<>> /\ tx.calls = <<>>
    /\ (tx.pc = "failed" /\ tx.error = ERR_NO_WALLET)
       => NoWallet(tx.wallet) /\ tx.planning = <<>> /\ tx.calls = <<>>

\* transact on an imported wallet whose default address did not resolve has
\* failed with "No wallet address found" before any Planning Service call.
C14_Witness ==
    /\ tx.pc = "failed"
    /\ tx.error = ERR_NO_ADDRESS
    /\ ~NoWallet(tx.wallet)
    /\ tx.wallet.defaultAddress = NoAddress
    /\ tx.addressCalls = 1
    /\ tx.planning = <<>>
    /\ tx.calls = <<>>

\* ----------------------------------------------------------------------- C15
\* The action kinds the loop has a branch for.
KnownActions ==
    {"transfer", "swap", "bridge", "deposit", "withdraw", "borrow", "repay",
     "ensregistration", "ensrenewal"}

\* The number of calls a Transaction Result stands for in a plan that is
\* carried out to the end.
CallsOf(tr) ==
    IF tr.action \notin KnownActions \/ Len(tr.steps) = 0 THEN 0
    ELSE IF tr.action \in {"transfer", "ensrenewal"} THEN 1
    ELSE IF tr.action = "ensregistration" THEN 2
    ELSE IF Len(tr.steps) > 1 THEN 2 ELSE 1

\* The plan without its Transaction Results of an unknown kind.
KnownPart(plan) == SelectSeq(plan, LAMBDA tr : tr.action \in KnownActions)

\* The number of calls a plan stands for.
RECURSIVE TotalCalls(_)
TotalCalls(plan) ==
    IF plan = <<>> THEN 0 ELSE CallsOf(Head(plan)) + TotalCalls(Tail(plan))

\* The call at k as the plan without the unknown kinds would have issued it:
\* the position of its action counts the known kinds only.
AsIfAbsent(k) ==
    [tx.calls[k] EXCEPT
       !.action = Len(KnownPart(SubSeq(tx.plan, 1, tx.calls[k].action)))]

\* C15: a Transaction Result of a kind other than the nine known ones has no
\* call and no receipt, the invocation never waits or fails at it, and the
\* plan is carried out as the plan without it: each call belongs to a known
\* action, and a returned invocation holds exactly the calls and receipts of
\* its known actions.
C15_UnknownActionDropped ==
    /\ \A i \in 1..Len(tx.plan) :
         tx.plan[i].action \notin KnownActions
         => /\ CallIndexes(i) = {}
            /\ ~(tx.pc \in {"awaitCall", "failed"} /\ tx.i = i)
    /\ \A k \in 1..Len(tx.calls) :
         /\ tx.plan[tx.calls[k].action].action \in KnownActions
         /\ KnownPart(tx.plan)[AsIfAbsent(k).action] = tx.plan[tx.calls[k].action]
    /\ tx.pc = "returned"
       => /\ Len(tx.calls) = TotalCalls(KnownPart(tx.plan))
          /\ Len(tx.txHashes) = TotalCalls(KnownPart(tx.plan))
          /\ \A i \in 1..Len(tx.plan) :
               Cardinality(CallIndexes(i)) = CallsOf(tx.plan[i])

\* transact returned for a plan of an unknown kind with three steps followed
\* by a three-step swap: both calls and both receipts are the swap's.
C15_Witness ==
    /\ tx.pc = "returned"
    /\ tx.error = ""
    /\ Len(tx.plan) = 2
    /\ tx.plan[1].action = "unknown"
    /\ Len(tx.plan[1].steps) = 3
    /\ tx.plan[2].action = "swap"
    /\ Len(tx.plan[2].steps) = 3
    /\ Len(tx.calls) = 2
    /\ tx.calls[1].action = 2
    /\ tx.calls[2].action = 2
    /\ Len(tx.txHashes) = 2

\* ----------------------------------------------------------------------- C16
\* C16: every contract or transfer call of an invocation is made on the wallet
\* that was current when the invocation started, the one whose default
\* address went to the Planning Service, whatever createWallet or importWallet
\* completes while the invocation is suspended.
C16_CallsOnStartingWallet ==
    \A k \in 1..Len(tx.calls) :
      /\ tx.calls[k].wallet = tx.wallet.obj
      /\ tx.planning # <<>>
      /\ tx.planning[1].address = tx.wallet.defaultAddress

====
